---- MODULE Spec2Model ----
(***************************************************************************)
(* Payment event reconciliation of the streaming backend.                  *)
(*                                                                         *)
(* Stores: WebhookEventLog (idempotency ledger), Transaction, User,        *)
(* Subscription, and the invoice-number sequence.  Handlers: the Stripe,   *)
(* Razorpay and PayPal webhooks (webhookController.js) with the helpers    *)
(* markTransactionPaid / updateUserAfterPurchase, and                      *)
(* PaymentService.handlePaymentSuccess / handlePaymentFailed.              *)
(*                                                                         *)
(* Every await of a handler is one step of its invocation, so that two     *)
(* invocations interleave exactly at the handlers' suspension points.      *)
(* A store or network call may fail (throw); the number of injected        *)
(* failures is bounded by MaxFaults.  session.withTransaction is one step: *)
(* its writes commit together or not at all.  Every payload carries an     *)
(* event id.                                                               *)
(***************************************************************************)
EXTENDS Integers, Sequences, FiniteSets, TLC

None == "none"

\* ---------------------------------------------------------------- bounds
MaxDeliveries == 2
MaxFaults == 1

\* Two handler invocations may be in flight at once.
Slots == {"a", "b"}

\* ------------------------------------------------------- program constants
TX_STATUS == [PENDING |-> "pending", PAID |-> "paid",
              FAILED |-> "failed", REFUNDED |-> "refunded"]

Statuses == {TX_STATUS.PENDING, TX_STATUS.PAID, TX_STATUS.FAILED, TX_STATUS.REFUNDED}

\* subscriptionDuration[cycle] || 30
subscriptionDuration(cycle) ==
    CASE cycle = "1m" -> 30
      [] cycle = "3m" -> 90
      [] cycle = "6m" -> 180
      [] OTHER -> 30

\* ------------------------------------------------ the Transaction documents
\* The immutable attributes of the transactions created by the purchase
\* flows; status and invoiceNumber are the mutable part (txStatus, txInvoice).
\* T3 and T4 are two subscription purchases of one user for one artist, on
\* a three-month and on a one-month cycle.  T5 has an item kind the
\* entitlement updater does not know.  The user of T6 (u2) has no User
\* document (the account was deleted after the purchase was started).
TxIds == {"T1", "T2", "T3", "T4", "T5", "T6"}

\* Natural (insertion) order of the collection, used by findOne.
TxOrder == <<"T1", "T2", "T3", "T4", "T5", "T6">>

TxDoc ==
    [T1 |-> [gateway |-> "stripe", itemType |-> "song", itemId |-> "song1",
             userId |-> "u1", artistId |-> None, cycle |-> None,
             paymentIntentId |-> "pi1", stripeSubscriptionId |-> None,
             razorpayOrderId |-> None, paymentId |-> None,
             paypalOrderId |-> None, externalSubscriptionId |-> None,
             razorpaySubscriptionId |-> None,
             paypalSubscriptionId |-> None],
     T2 |-> [gateway |-> "razorpay", itemType |-> "album", itemId |-> "album1",
             userId |-> "u1", artistId |-> None, cycle |-> None,
             paymentIntentId |-> None, stripeSubscriptionId |-> None,
             razorpayOrderId |-> "order2", paymentId |-> None,
             paypalOrderId |-> None, externalSubscriptionId |-> None,
             razorpaySubscriptionId |-> None,
             paypalSubscriptionId |-> None],
     T3 |-> [gateway |-> "paypal", itemType |-> "artist-subscription",
             itemId |-> "artist1",
             userId |-> "u1", artistId |-> "artist1", cycle |-> "3m",
             paymentIntentId |-> None, stripeSubscriptionId |-> None,
             razorpayOrderId |-> None, paymentId |-> None,
             paypalOrderId |-> None, externalSubscriptionId |-> None,
             razorpaySubscriptionId |-> None,
             paypalSubscriptionId |-> "ppsub3"],
     T4 |-> [gateway |-> "paypal", itemType |-> "artist-subscription",
             itemId |-> "artist1",
             userId |-> "u1", artistId |-> "artist1", cycle |-> "1m",
             paymentIntentId |-> None, stripeSubscriptionId |-> None,
             razorpayOrderId |-> None, paymentId |-> None,
             paypalOrderId |-> None, externalSubscriptionId |-> None,
             razorpaySubscriptionId |-> None,
             paypalSubscriptionId |-> "ppsub4"],
     T5 |-> [gateway |-> "paypal", itemType |-> "merch", itemId |-> "item5",
             userId |-> "u1", artistId |-> None, cycle |-> None,
             paymentIntentId |-> None, stripeSubscriptionId |-> None,
             razorpayOrderId |-> None, paymentId |-> None,
             paypalOrderId |-> "cap5", externalSubscriptionId |-> None,
             razorpaySubscriptionId |-> None,
             paypalSubscriptionId |-> None],
     T6 |-> [gateway |-> "paypal", itemType |-> "artist-subscription",
             itemId |-> "artist2",
             userId |-> "u2", artistId |-> "artist2", cycle |-> "1m",
             paymentIntentId |-> None, stripeSubscriptionId |-> None,
             razorpayOrderId |-> None, paymentId |-> None,
             paypalOrderId |-> None, externalSubscriptionId |-> None,
             razorpaySubscriptionId |-> None,
             paypalSubscriptionId |-> "ppsub6"]]

UserIds == {"u1"}

\* ------------------------------------------------------ provider payloads
\* One verified payload per event id (a redelivery carries the same payload).
\*   h              the handler the provider delivers it to ("hps", "hpf":
\*                  the PaymentService methods; "refund": the admin's
\*                  request to refundTransaction)
\*   type           event.type / eventData.event / event_type
\*   dataId         data.id / payment entity id / resource.id
\*   invoice        data.invoice / fullPayment.invoice_id
\*   subscription   data.subscription / invoice.subscription_id
\*   orderId        paymentEntity.order_id
\*   notes          the one-time metadata (notes / custom_id) is complete
\*   malformed      custom_id is present and is not valid JSON
\*   transactionId  metadata.transactionId / payload.transactionId
\*   provider       payload.provider
\*   mtype, mitem, martist, mext
\*                  payload.metadata.type, .itemId, .artistId,
\*                  .externalSubscriptionId
\*   periodEnd      raw.current_period_end (days from now)
EventIds == {"se1", "se2", "sn1", "si1", "si2", "sf1", "sc1", "re1", "re2", "rn1", "rc1",
             "pe1", "pe2", "pe3", "pu1", "pk1", "pn1", "pm1", "pc1",
             "he1", "he2", "he3", "fe1", "rf1"}

Blank == [h |-> None, type |-> None, dataId |-> None, invoice |-> None,
          subscription |-> None, orderId |-> None, notes |-> FALSE,
          malformed |-> FALSE,
          transactionId |-> None, provider |-> None, mtype |-> None,
          mitem |-> None, martist |-> None, mext |-> None, periodEnd |-> None]

Payload ==
    [se1 |-> [Blank EXCEPT !.h = "stripe", !.type = "payment_intent.succeeded",
                           !.dataId = "pi1", !.transactionId = "T1"],
     se2 |-> [Blank EXCEPT !.h = "stripe", !.type = "payment_intent.succeeded",
                           !.dataId = "pi1", !.transactionId = "T1"],
     sn1 |-> [Blank EXCEPT !.h = "stripe", !.type = "payment_intent.succeeded",
                           !.dataId = "pi1"],
     si1 |-> [Blank EXCEPT !.h = "stripe",
                           !.type = "invoice.payment_succeeded",
                           !.dataId = "in1", !.subscription = "subX"],
     si2 |-> [Blank EXCEPT !.h = "stripe",
                           !.type = "invoice.payment_succeeded",
                           !.dataId = "in2"],
     sf1 |-> [Blank EXCEPT !.h = "stripe",
                           !.type = "payment_intent.payment_failed",
                           !.dataId = "pi1", !.transactionId = "T1"],
     sc1 |-> [Blank EXCEPT !.h = "stripe",
                           !.type = "customer.subscription.deleted",
                           !.dataId = "subX"],
     re1 |-> [Blank EXCEPT !.h = "razorpay", !.type = "payment.captured",
                           !.dataId = "pay2", !.orderId = "order2",
                           !.notes = TRUE],
     re2 |-> [Blank EXCEPT !.h = "razorpay", !.type = "payment.captured",
                           !.dataId = "pay2", !.orderId = "order2",
                           !.invoice = "inv2", !.subscription = "rzsubX"],
     rn1 |-> [Blank EXCEPT !.h = "razorpay", !.type = "payment.captured",
                           !.dataId = "pay2", !.orderId = "order2"],
     rc1 |-> [Blank EXCEPT !.h = "razorpay", !.type = "subscription.halted",
                           !.dataId = "subX"],
     pe1 |-> [Blank EXCEPT !.h = "paypal",
                           !.type = "BILLING.SUBSCRIPTION.ACTIVATED",
                           !.dataId = "ppsub3"],
     pe2 |-> [Blank EXCEPT !.h = "paypal",
                           !.type = "BILLING.SUBSCRIPTION.ACTIVATED",
                           !.dataId = "ppsub4"],
     pe3 |-> [Blank EXCEPT !.h = "paypal",
                           !.type = "BILLING.SUBSCRIPTION.ACTIVATED",
                           !.dataId = "ppsub6"],
     pu1 |-> [Blank EXCEPT !.h = "paypal",
                           !.type = "BILLING.SUBSCRIPTION.ACTIVATED",
                           !.dataId = "ppsubX"],
     pk1 |-> [Blank EXCEPT !.h = "paypal",
                           !.type = "PAYMENT.CAPTURE.COMPLETED",
                           !.dataId = "cap5", !.notes = TRUE],
     pn1 |-> [Blank EXCEPT !.h = "paypal",
                           !.type = "PAYMENT.CAPTURE.COMPLETED",
                           !.dataId = "cap1"],
     pm1 |-> [Blank EXCEPT !.h = "paypal",
                           !.type = "PAYMENT.CAPTURE.COMPLETED",
                           !.dataId = "cap1", !.malformed = TRUE],
     pc1 |-> [Blank EXCEPT !.h = "paypal",
                           !.type = "BILLING.SUBSCRIPTION.CANCELLED",
                           !.dataId = "ppsub3"],
     he1 |-> [Blank EXCEPT !.h = "hps", !.transactionId = "T1",
                           !.provider = "stripe"],
     he2 |-> [Blank EXCEPT !.h = "hps", !.provider = "stripe"],
     he3 |-> [Blank EXCEPT !.h = "hps", !.transactionId = "T3",
                           !.provider = "paypal",
                           !.mtype = "artist-subscription"],
     fe1 |-> [Blank EXCEPT !.h = "hpf", !.transactionId = "T1",
                           !.provider = "stripe"],
     rf1 |-> [Blank EXCEPT !.h = "refund", !.transactionId = "T1"]]

\* ------------------------------------------------------------------ state
VARIABLES
    log,         \* WebhookEventLog: the event ids recorded
    txStatus,    \* Transaction.status
    txInvoice,   \* Transaction.invoiceNumber (0: not assigned)
    invoiceSeq,  \* the last number handed out by getNextInvoiceNumber
    users,       \* User documents: the arrays purchasedSongs, purchasedAlbums
                 \* and purchaseHistory
    subs,        \* Subscription documents
    inv,         \* the handler invocations in flight, one per slot
    delivered,   \* number of deliveries so far
    faults,      \* number of injected store/network failures so far
    paidLog,     \* history: the writes of status "paid", in order, each with
                 \* the event of the writing invocation and the status it saw
    invCalls,    \* history: per transaction, the calls of getNextInvoiceNumber
    outcomes     \* history: per event id, the ledger outcomes obtained for it

vars == <<log, txStatus, txInvoice, invoiceSeq, users, subs, inv,
          delivered, faults, paidLog, invCalls, outcomes>>

\* An invocation: the await it is suspended at (pc), its event id (ev),
\* whether the payload's signature verifies (sig), the transaction loaded by
\* markTransactionPaid and its status as loaded (found, seen), the invoice
\* number it obtained (invNo), the
\* outcome of its ledger registration (ledger), the response it sent or the
\* value it returned (resp), whether an error was thrown in it (threw) and
\* the stores it has mutated and the outside effects it has issued (wrote).
Idle == [pc |-> "idle", ev |-> None, sig |-> TRUE, found |-> None,
         seen |-> None, invNo |-> 0, ledger |-> None, resp |-> None, threw |-> FALSE, wrote |-> {}]

Init ==
    /\ log = {}
    /\ txStatus = [t \in TxIds |-> TX_STATUS.PENDING]
    /\ txInvoice = [t \in TxIds |-> 0]
    /\ invoiceSeq = 0
    /\ users = [u \in UserIds |->
                  [purchasedSongs |-> <<>>, purchasedAlbums |-> <<>>,
                   purchaseHistory |-> <<>>]]
    /\ subs = {}
    /\ inv = [s \in Slots |-> Idle]
    /\ delivered = 0
    /\ faults = 0
    /\ paidLog = <<>>
    /\ invCalls = [t \in TxIds |-> 0]
    /\ outcomes = [e \in EventIds |-> [NEW |-> 0, DUPLICATE |-> 0, ERROR |-> 0]]

\* ---------------------------------------------------------------- helpers
\* A store or network call either succeeds or throws.
MayFail == IF faults < MaxFaults THEN {FALSE, TRUE} ELSE {FALSE}

Fault(f) == faults' = IF f THEN faults + 1 ELSE faults

P(s) == Payload[inv[s].ev]

\* The invocation ends: a response was sent, a value returned or an error thrown.
Finish(s, r) == inv' = [inv EXCEPT ![s].pc = "done", ![s].resp = r]

Goto(s, l) == inv' = [inv EXCEPT ![s].pc = l]

\* The invocation ends in a thrown error.
Throw(s, r) == inv' = [inv EXCEPT ![s].pc = "done", ![s].resp = r,
                                  ![s].threw = TRUE]

\* The ledger outcome o was obtained for event e.
Record(e, o) == outcomes' = [outcomes EXCEPT ![e][o] = @ + 1]

\* What an error thrown inside the handler's try block ends in: Stripe's
\* catch logs and falls through to the 200 response, Razorpay's and PayPal's
\* answer 500, the PaymentService methods rethrow.
Caught(h) ==
    CASE h = "stripe" -> "200"
      [] h \in {"razorpay", "paypal"} -> "500"
      [] OTHER -> "throw"

\* ----------------------------------------------------- the idempotency ledger
\* WebhookEventLog.create({eventId}): a unique-constrained insert.  f: the
\* store is unavailable.
LogCreate(e, f) ==
    IF f THEN "unavailable"
    ELSE IF e \in log THEN "duplicate" ELSE "created"

\* WebhookEventLog.findOne({eventId})
LogFindOne(e) == e \in log

\* ------------------------------------------------------ markTransactionPaid
NoArgs == [gateway |-> None, paymentId |-> None, razorpayOrderId |-> None,
           paymentIntentId |-> None, stripeSubscriptionId |-> None,
           subscriptionId |-> None]

\* The identifiers each webhook branch passes to markTransactionPaid.
MtpArgs(p) ==
    CASE p.h = "stripe" /\ p.type = "payment_intent.succeeded" ->
           [NoArgs EXCEPT !.gateway = "stripe", !.paymentIntentId = p.dataId]
      [] p.h = "stripe" ->
           [NoArgs EXCEPT !.gateway = "stripe",
                          !.stripeSubscriptionId = p.subscription]
      [] p.h = "razorpay" /\ p.subscription # None ->
           [NoArgs EXCEPT !.gateway = "razorpay", !.paymentId = p.dataId,
                          !.subscriptionId = p.subscription,
                          !.razorpayOrderId = p.orderId]
      [] p.h = "razorpay" ->
           [NoArgs EXCEPT !.gateway = "razorpay", !.paymentId = p.dataId,
                          !.razorpayOrderId = p.orderId]
      [] p.h = "paypal" /\ p.type \in {"BILLING.SUBSCRIPTION.ACTIVATED",
                                       "BILLING.SUBSCRIPTION.RENEWED"} ->
           [NoArgs EXCEPT !.gateway = "paypal", !.subscriptionId = p.dataId]
      [] OTHER ->
           [NoArgs EXCEPT !.gateway = "paypal", !.paymentId = p.dataId]

\* The filter markTransactionPaid builds; field "" is the empty filter {}.
Query(a) ==
    CASE a.gateway = "stripe" ->
           IF a.stripeSubscriptionId # None
           THEN [field |-> "stripeSubscriptionId", value |-> a.stripeSubscriptionId]
           ELSE [field |-> "paymentIntentId", value |-> a.paymentIntentId]
      [] a.gateway = "razorpay" ->
           IF a.subscriptionId # None
           THEN [field |-> "razorpaySubscriptionId", value |-> a.subscriptionId]
           ELSE IF a.razorpayOrderId # None
           THEN [field |-> "razorpayOrderId", value |-> a.razorpayOrderId]
           ELSE IF a.paymentId # None
           THEN [field |-> "paymentId", value |-> a.paymentId]
           ELSE [field |-> "", value |-> None]
      [] a.gateway = "paypal" ->
           IF a.subscriptionId # None
           THEN [field |-> "paypalSubscriptionId", value |-> a.subscriptionId]
           ELSE IF a.paymentId # None
           THEN [field |-> "paypalOrderId", value |-> a.paymentId]
           ELSE [field |-> "", value |-> None]
      [] OTHER -> [field |-> "", value |-> None]

\* A filter on an undefined value is sent as null, which matches the
\* documents that lack the field; the empty filter matches every document.
Matches(t, q) == q.field = "" \/ TxDoc[t][q.field] = q.value

\* findOne falling back to the first document of the collection when the
\* filter matches none.
FindOneOrFirst(q) ==
    LET hits == {i \in 1..Len(TxOrder) : Matches(TxOrder[i], q)}
    IN  IF hits = {} THEN TxOrder[1]
        ELSE TxOrder[CHOOSE i \in hits : \A j \in hits : i <= j]

\* Transaction.findOne(query): the first matching document, or None.
FindOne(q) ==
    LET hits == {i \in 1..Len(TxOrder) : Matches(TxOrder[i], q)}
    IN  IF hits = {} THEN None
        ELSE TxOrder[CHOOSE i \in hits : \A j \in hits : i <= j]

\* markTransactionPaid returns null: nothing found, or already paid.
MtpReturnsNull(t) == t = None \/ txStatus[t] = "paid"

\* --------------------------------------------------- updateUserAfterPurchase
\* The paymentId each webhook branch passes to updateUserAfterPurchase.
PaymentRef(p) ==
    CASE p.h = "stripe" /\ p.type = "payment_intent.succeeded" -> p.dataId
      [] p.h = "stripe" -> p.subscription
      [] p.h = "razorpay" /\ p.subscription # None -> p.subscription
      [] OTHER -> p.dataId

\* The array arr holds the value x.
Holds(arr, x) == \E i \in 1..Len(arr) : arr[i] = x

\* $addToSet written as $push: the value is appended whether present or not.
AddToSetAsPush(arr, x) == Append(arr, x)

\* $addToSet: appends the value to the array unless the array holds it.
AddToSet(arr, x) == IF Holds(arr, x) THEN arr ELSE Append(arr, x)

\* updateOps written with $set: the arrays are replaced by the new item and
\* the new entry, as a save of a stale copy of the document does.
UapUserOpsAsSet(u, t, e) ==
    LET d == TxDoc[t]
        entry == [itemType |-> d.itemType, itemId |-> d.itemId,
                  paymentId |-> PaymentRef(Payload[e]), tx |-> t, ev |-> e]
    IN  [purchasedSongs |->
             IF d.itemType = "song" THEN <<d.itemId>> ELSE u.purchasedSongs,
         purchasedAlbums |->
             IF d.itemType = "album" THEN <<d.itemId>> ELSE u.purchasedAlbums,
         purchaseHistory |-> <<entry>>]

\* updateOps applied to the user document by one findByIdAndUpdate.
UapUserOps(u, t, e) ==
    LET d == TxDoc[t]
        entry == [itemType |-> d.itemType, itemId |-> d.itemId,
                  paymentId |-> PaymentRef(Payload[e]), tx |-> t, ev |-> e]
    IN  [purchasedSongs |->
             IF d.itemType = "song" THEN AddToSet(u.purchasedSongs, d.itemId)
             ELSE u.purchasedSongs,
         purchasedAlbums |->
             IF d.itemType = "album" THEN AddToSet(u.purchasedAlbums, d.itemId)
             ELSE u.purchasedAlbums,
         purchaseHistory |-> Append(u.purchaseHistory, entry)]

Coalesce(xs) ==
    LET set == {i \in 1..Len(xs) : xs[i] # None}
    IN  IF set = {} THEN None ELSE xs[CHOOSE i \in set : \A j \in set : i <= j]

fallbackExternalId(t) ==
    LET d == TxDoc[t]
        c == Coalesce(<<d.externalSubscriptionId, d.razorpaySubscriptionId,
                        d.paypalSubscriptionId, d.stripeSubscriptionId,
                        d.paymentIntentId, d.razorpayOrderId>>)
    IN  IF c = None THEN "unknown" ELSE c

\* The compound unique key of a Subscription document.
SubscriptionKey(r) == <<r.userId, r.artistId>>

\* The upsert written as Subscription.create: a document is inserted whether
\* or not the pair has one.
UpsertAsCreate(userId, artistId, fields) ==
    subs \cup {[userId |-> userId, artistId |-> artistId,
                status |-> fields.status, validUntil |-> fields.validUntil,
                gateway |-> fields.gateway,
                externalSubscriptionId |-> fields.externalSubscriptionId,
                transactionId |-> fields.transactionId]}

\* Subscription.findOneAndUpdate({userId, artistId}, fields, {upsert: true}):
\* one step of the store; upserts of one pair that race are serialised by
\* the unique key.
Upsert(userId, artistId, fields) ==
    LET hit == {r \in subs : r.userId = userId /\ r.artistId = artistId}
        new == [userId |-> userId, artistId |-> artistId,
                status |-> fields.status, validUntil |-> fields.validUntil,
                gateway |-> fields.gateway,
                externalSubscriptionId |-> fields.externalSubscriptionId,
                transactionId |-> fields.transactionId]
    IN  IF hit = {} THEN subs \cup {new}
        ELSE (subs \ {CHOOSE r \in hit : TRUE}) \cup {new}

\* The subscription fields updateUserAfterPurchase writes.  validUntil is in
\* days from the instant of the run: the deliveries of one run take place
\* within the same day.  The enrichment with Stripe's current_period_end applies only
\* to a transaction with a stripeSubscriptionId, which no document of TxDoc
\* carries.
UapSubFields(t) ==
    [status |-> "active",
     validUntil |-> subscriptionDuration(TxDoc[t].cycle),
     gateway |-> TxDoc[t].gateway,
     externalSubscriptionId |-> fallbackExternalId(t),
     transactionId |-> t]

\* ------------------------------------------------------------- deliveries
FreeSlot == IF inv["a"].pc \in {"idle", "done"} THEN "a" ELSE "b"

\* Where a handler suspends first: everything up to its first await is
\* synchronous.  Stripe and Razorpay verify the signature synchronously and
\* answer 400; PayPal verifies through the provider's API.
Entry(p, sigOk) ==
    CASE p.h = "stripe" -> IF sigOk THEN "st_find" ELSE "done"
      [] p.h = "razorpay" ->
           IF ~sigOk THEN "done"
           ELSE IF p.type = "payment.captured" THEN "rz_fetch"
           ELSE IF p.type \in {"subscription.halted", "subscription.completed"}
           THEN "sub_update"
           ELSE "done"
      [] p.h = "paypal" -> "pp_verify"
      [] p.h = "hps" -> "hps_log"
      [] p.h = "refund" -> "rf_find"
      [] OTHER -> "hpf_log"

\* A provider (or the worker) delivers event e; a webhook payload may fail
\* signature verification.
Deliver(e, sigOk) ==
    /\ delivered < MaxDeliveries
    /\ \E s \in Slots : inv[s].pc \in {"idle", "done"}
    /\ Payload[e].h \in {"hps", "hpf", "refund"} => sigOk
    /\ LET l == Entry(Payload[e], sigOk)
       IN  inv' = [inv EXCEPT ![FreeSlot] =
                     [Idle EXCEPT !.ev = e, !.sig = sigOk, !.pc = l,
                                  !.resp = IF l # "done" THEN None
                                           ELSE IF sigOk THEN "200" ELSE "400"]]
    /\ delivered' = delivered + 1
    /\ UNCHANGED <<log, txStatus, txInvoice, invoiceSeq, users, subs,
                   faults, paidLog, invCalls, outcomes>>

\* ---------------------------------------------------------- stripeWebhook
\* The switch on event.type, up to the first await of the chosen branch.
StripeDispatch(p) ==
    CASE p.type = "payment_intent.succeeded" ->
           IF p.invoice # None \/ p.transactionId = None THEN "done"
           ELSE "mtp_find"
      [] p.type = "invoice.payment_succeeded" -> "mtp_find"
      [] p.type \in {"invoice.payment_failed",
                     "customer.subscription.deleted"} -> "sub_update"
      [] p.type = "payment_intent.payment_failed" -> "st_fail_update"
      [] OTHER -> "done"

\* await WebhookEventLog.findOne({eventId}); outside the try block, so a
\* store error leaves the request unanswered.
StFind(s) ==
    /\ inv[s].pc = "st_find"
    /\ \E f \in MayFail :
         /\ Fault(f)
         /\ IF f
            THEN /\ Throw(s, "unhandled")
                 /\ UNCHANGED outcomes
            ELSE IF LogFindOne(inv[s].ev)
            THEN /\ inv' = [inv EXCEPT ![s].pc = "done", ![s].resp = "200dup",
                                       ![s].ledger = "DUPLICATE"]
                 /\ Record(inv[s].ev, "DUPLICATE")
            ELSE /\ Goto(s, "st_create")
                 /\ UNCHANGED outcomes
    /\ UNCHANGED <<log, txStatus, txInvoice, invoiceSeq, users, subs,
                   delivered, paidLog, invCalls>>

\* What stripeWebhook makes of the result of WebhookEventLog.create: it has
\* no catch around it, so any rejection ends the invocation unanswered.
StLedger(r) ==
    CASE r = "created" -> "NEW"
      [] r = "duplicate" -> "DUPLICATE"
      [] OTHER -> "ERROR"

StCreate(s) ==
    /\ inv[s].pc = "st_create"
    /\ \E f \in MayFail :
         LET r == LogCreate(inv[s].ev, f)
             o == StLedger(r)
             l == StripeDispatch(P(s))
         IN  /\ Fault(f)
             /\ log' = IF r = "created" THEN log \cup {inv[s].ev} ELSE log
             /\ inv' = [inv EXCEPT
                   ![s].ledger = o,
                   ![s].wrote = IF r = "created" THEN @ \cup {"ledger"} ELSE @,
                   ![s].pc = IF o = "NEW" THEN l ELSE "done",
                   ![s].threw = o # "NEW",
                   ![s].resp = IF o # "NEW" THEN "unhandled"
                               ELSE IF l = "done" THEN "200" ELSE None]
             /\ Record(inv[s].ev, o)
    /\ UNCHANGED <<txStatus, txInvoice, invoiceSeq, users, subs,
                   delivered, paidLog, invCalls>>

\* case "payment_intent.payment_failed":
\* Transaction.findOneAndUpdate({paymentIntentId}, {status: "failed"})
StFailUpdate(s) ==
    /\ inv[s].pc = "st_fail_update"
    /\ \E f \in MayFail :
         LET t == FindOne([field |-> "paymentIntentId", value |-> P(s).dataId])
         IN  /\ Fault(f)
             /\ IF f
                THEN /\ Throw(s, Caught(P(s).h))
                     /\ UNCHANGED txStatus
                ELSE IF t = None
                THEN /\ Finish(s, "200")
                     /\ UNCHANGED txStatus
                ELSE /\ txStatus' = [txStatus EXCEPT ![t] = "failed"]
                     /\ inv' = [inv EXCEPT ![s].pc = "done", ![s].resp = "200",
                                           ![s].wrote = @ \cup {"tx"}]
    /\ UNCHANGED <<log, txInvoice, invoiceSeq, users, subs,
                   delivered, paidLog, invCalls, outcomes>>

\* -------------------------------------------------------- razorpayWebhook
\* await razorpay.payments.fetch (and invoices.fetch): reads of the provider,
\* taken as one step; then the branch on subscriptionId and on the notes.
RzFetch(s) ==
    /\ inv[s].pc = "rz_fetch"
    /\ \E f \in MayFail :
         /\ Fault(f)
         /\ IF f THEN Throw(s, "500")
            ELSE IF P(s).subscription # None THEN Goto(s, "mtp_find")
            ELSE IF ~P(s).notes THEN Finish(s, "200")
            ELSE Goto(s, "mtp_find")
    /\ UNCHANGED <<log, txStatus, txInvoice, invoiceSeq, users, subs,
                   delivered, paidLog, invCalls, outcomes>>

\* ---------------------------------------------------------- paypalWebhook
\* The branch on the event type, up to its first await; "throw": the
\* JSON.parse of custom_id throws.
PaypalDispatch(p) ==
    CASE p.type \in {"BILLING.SUBSCRIPTION.ACTIVATED",
                     "BILLING.SUBSCRIPTION.RENEWED"} -> "mtp_find"
      [] p.type \in {"PAYMENT.CAPTURE.COMPLETED", "CHECKOUT.ORDER.APPROVED"} ->
           IF p.malformed THEN "throw"
           ELSE IF p.notes THEN "mtp_find" ELSE "done"
      [] p.type \in {"BILLING.SUBSCRIPTION.CANCELLED",
                     "BILLING.SUBSCRIPTION.EXPIRED"} -> "sub_update"
      [] OTHER -> "done"

\* The token and verify-webhook-signature calls, taken as one step, then the
\* branch on the event type.
PpVerify(s) ==
    /\ inv[s].pc = "pp_verify"
    /\ \E f \in MayFail :
         /\ Fault(f)
         /\ IF f THEN Throw(s, "500")
            ELSE IF ~inv[s].sig THEN Finish(s, "400")
            ELSE IF PaypalDispatch(P(s)) = "throw"
            THEN Throw(s, Caught(P(s).h))
            ELSE IF PaypalDispatch(P(s)) = "done" THEN Finish(s, "200")
            ELSE Goto(s, PaypalDispatch(P(s)))
    /\ UNCHANGED <<log, txStatus, txInvoice, invoiceSeq, users, subs,
                   delivered, paidLog, invCalls, outcomes>>

\* ------------------------------------- markTransactionPaid, step by step
\* const transaction = await Transaction.findOne(query), and the check of
\* the loaded status.
MtpFind(s) ==
    /\ inv[s].pc = "mtp_find"
    /\ \E f \in MayFail :
         LET t == FindOne(Query(MtpArgs(P(s))))
         IN  /\ Fault(f)
             /\ IF f THEN Throw(s, Caught(P(s).h))
                ELSE IF MtpReturnsNull(t) THEN Finish(s, "200")
                ELSE inv' = [inv EXCEPT ![s].pc = "mtp_invoice", ![s].found = t,
                                           ![s].seen = txStatus[t]]
    /\ UNCHANGED <<log, txStatus, txInvoice, invoiceSeq, users, subs,
                   delivered, paidLog, invCalls, outcomes>>

\* getNextInvoiceNumber: the next number of a durable, monotonic sequence.
getNextInvoiceNumber == invoiceSeq + 1

\* const invoiceNumber = await getNextInvoiceNumber()
MtpInvoice(s) ==
    /\ inv[s].pc = "mtp_invoice"
    /\ \E f \in MayFail :
         /\ Fault(f)
         /\ IF f
            THEN /\ Throw(s, Caught(P(s).h))
                 /\ UNCHANGED <<invoiceSeq, invCalls>>
            ELSE /\ invoiceSeq' = getNextInvoiceNumber
                 /\ invCalls' = [invCalls EXCEPT ![inv[s].found] = @ + 1]
                 /\ inv' = [inv EXCEPT ![s].pc = "mtp_save",
                                       ![s].invNo = getNextInvoiceNumber]
    /\ UNCHANGED <<log, txStatus, txInvoice, users, subs, delivered, paidLog,
                   outcomes>>

\* Where updateUserAfterPurchase suspends first.
UapEntry(t) ==
    IF TxDoc[t].itemType = "artist-subscription" THEN "uap_sub" ELSE "uap_user"

\* await transaction.save(): writes the status and invoiceNumber set on the
\* loaded document; then the handler calls updateUserAfterPurchase.
MtpSave(s) ==
    /\ inv[s].pc = "mtp_save"
    /\ \E f \in MayFail :
         LET t == inv[s].found
         IN  /\ Fault(f)
             /\ IF f
                THEN /\ Throw(s, Caught(P(s).h))
                     /\ UNCHANGED <<txStatus, txInvoice, paidLog>>
                ELSE /\ txStatus' = [txStatus EXCEPT ![t] = "paid"]
                     /\ txInvoice' = [txInvoice EXCEPT ![t] = inv[s].invNo]
                     /\ paidLog' = Append(paidLog, [ev |-> inv[s].ev, tx |-> t,
                                                   seen |-> inv[s].seen])
                     /\ inv' = [inv EXCEPT ![s].pc = UapEntry(t),
                                           ![s].wrote = @ \cup {"tx"}]
    /\ UNCHANGED <<log, invoiceSeq, users, subs, delivered, invCalls, outcomes>>

\* case "artist-subscription": await Subscription.findOneAndUpdate(upsert)
UapSub(s) ==
    /\ inv[s].pc = "uap_sub"
    /\ \E f \in MayFail :
         LET t == inv[s].found
         IN  /\ Fault(f)
             /\ IF f
                THEN /\ Throw(s, Caught(P(s).h))
                     /\ UNCHANGED subs
                ELSE /\ subs' = Upsert(TxDoc[t].userId, TxDoc[t].artistId,
                                       UapSubFields(t))
                     /\ inv' = [inv EXCEPT ![s].pc = "uap_user",
                                           ![s].wrote = @ \cup {"sub"}]
    /\ UNCHANGED <<log, txStatus, txInvoice, invoiceSeq, users,
                   delivered, paidLog, invCalls, outcomes>>

\* await User.findByIdAndUpdate(transaction.userId, updateOps); the handlers
\* ignore the boolean and answer 200.
UapUser(s) ==
    /\ inv[s].pc = "uap_user"
    /\ \E f \in MayFail :
         LET t == inv[s].found
             u == TxDoc[t].userId
         IN  /\ Fault(f)
             /\ IF f
                THEN /\ Throw(s, Caught(P(s).h))
                     /\ UNCHANGED users
                ELSE IF u \notin DOMAIN users
                THEN /\ Finish(s, "200")
                     /\ UNCHANGED users
                ELSE /\ users' = [users EXCEPT ![u] = UapUserOps(@, t, inv[s].ev)]
                     /\ inv' = [inv EXCEPT ![s].pc = "done", ![s].resp = "200",
                                           ![s].wrote = @ \cup {"user"}]
    /\ UNCHANGED <<log, txStatus, txInvoice, invoiceSeq, subs,
                   delivered, paidLog, invCalls, outcomes>>

\* ------------------------------------------------ subscription deactivation
\* The external subscription id and the status of a deactivation event.
DeactivateId(p) ==
    IF p.h = "stripe" /\ p.type = "invoice.payment_failed" THEN p.subscription
    ELSE p.dataId

DeactivateStatus(p) ==
    IF p.h = "stripe" /\ p.type = "invoice.payment_failed" THEN "failed"
    ELSE "cancelled"

\* The documents a deactivation with external id id matches.
DeactivateHits(id) == {r \in subs : r.externalSubscriptionId = id}

\* The deactivation written with {upsert: true}: a document is created when
\* none matches.
DeactivateUpserting(id, status) ==
    IF DeactivateHits(id) = {}
    THEN subs \cup {[userId |-> None, artistId |-> None, status |-> status,
                     validUntil |-> 0, gateway |-> None,
                     externalSubscriptionId |-> id, transactionId |-> None]}
    ELSE LET r == CHOOSE r \in DeactivateHits(id) : TRUE
         IN  (subs \ {r}) \cup {[r EXCEPT !.status = status]}

\* Subscription.findOneAndUpdate({externalSubscriptionId: id}, {status}):
\* the first matching document gets the status; without a match nothing is
\* written.
Deactivate(id, status) ==
    IF DeactivateHits(id) = {} THEN subs
    ELSE LET r == CHOOSE r \in DeactivateHits(id) : TRUE
         IN  (subs \ {r}) \cup {[r EXCEPT !.status = status]}

\* await Subscription.findOneAndUpdate({externalSubscriptionId}, {status})
SubUpdate(s) ==
    /\ inv[s].pc = "sub_update"
    /\ \E f \in MayFail :
         /\ Fault(f)
         /\ IF f
            THEN /\ Throw(s, Caught(P(s).h))
                 /\ UNCHANGED subs
            ELSE /\ subs' = Deactivate(DeactivateId(P(s)), DeactivateStatus(P(s)))
                 /\ inv' = [inv EXCEPT
                       ![s].pc = "done", ![s].resp = "200",
                       ![s].wrote = IF DeactivateHits(DeactivateId(P(s))) = {}
                                    THEN @ ELSE @ \cup {"sub"}]
    /\ UNCHANGED <<log, txStatus, txInvoice, invoiceSeq, users,
                   delivered, paidLog, invCalls, outcomes>>

\* ------------------------------------- PaymentService.handlePaymentSuccess
\* HpsLedger without the check of err.code === 11000: a duplicate key is
\* swallowed and the event processed again.
HpsLedgerIgnoringDuplicate(r) ==
    IF r = "unavailable" THEN "ERROR" ELSE "NEW"

\* What handlePaymentSuccess makes of the result of WebhookEventLog.create:
\* a duplicate key (11000) is "already processed", any other error is rethrown.
HpsLedger(r) ==
    CASE r = "created" -> "NEW"
      [] r = "duplicate" -> "DUPLICATE"
      [] OTHER -> "ERROR"

\* 1) Idempotency: await WebhookEventLog.create({eventId, ...})
HpsLog(s) ==
    /\ inv[s].pc = "hps_log"
    /\ \E f \in MayFail :
         LET r == LogCreate(inv[s].ev, f)
             o == HpsLedger(r)
         IN  /\ Fault(f)
             /\ log' = IF r = "created" THEN log \cup {inv[s].ev} ELSE log
             /\ inv' = [inv EXCEPT
                   ![s].ledger = o,
                   ![s].wrote = IF r = "created" THEN @ \cup {"ledger"} ELSE @,
                   ![s].pc = IF o = "NEW" THEN "hps_txn" ELSE "done",
                   ![s].threw = o = "ERROR",
                   ![s].resp = CASE o = "NEW" -> None
                                 [] o = "DUPLICATE" -> "alreadyProcessed"
                                 [] OTHER -> "throw"]
             /\ Record(inv[s].ev, o)
    /\ UNCHANGED <<txStatus, txInvoice, invoiceSeq, users, subs,
                   delivered, paidLog, invCalls>>

\* Transaction.findOneAndUpdate({_id, status: {$ne: PAID}}, ...) matches.
HpsMatches(t) == t \in TxIds /\ txStatus[t] # TX_STATUS.PAID

\* 3) the $push / $addToSet applied to the user document.
HpsUserOps(u, t, e) ==
    LET d == TxDoc[t]
        p == Payload[e]
        item == IF p.mitem # None THEN p.mitem ELSE d.itemId
        entry == [itemType |-> p.mtype, itemId |-> item,
                  paymentId |-> t, tx |-> t, ev |-> e]
    IN  [purchasedSongs |->
             IF p.mtype = "song" \/ d.itemType = "song"
             THEN AddToSet(u.purchasedSongs, item) ELSE u.purchasedSongs,
         purchasedAlbums |->
             IF ~(p.mtype = "song" \/ d.itemType = "song")
                /\ (p.mtype = "album" \/ d.itemType = "album")
             THEN AddToSet(u.purchasedAlbums, item) ELSE u.purchasedAlbums,
         purchaseHistory |-> Append(u.purchaseHistory, entry)]

HpsIsSubscription(t, p) ==
    p.mtype = "artist-subscription" \/ TxDoc[t].itemType = "artist-subscription"

HpsArtistId(t, p) ==
    Coalesce(<<p.martist, TxDoc[t].artistId, p.mitem, TxDoc[t].itemId>>)

\* 4) the subscription fields upserted (validUntil in days from now): 30
\* days unless the provider's payload carries the period end.
HpsSubFields(t, p) ==
    [status |-> "active",
     validUntil |-> IF p.provider \in {"stripe", "razorpay"} /\ p.periodEnd # None
                    THEN p.periodEnd ELSE 30,
     gateway |-> p.provider,
     externalSubscriptionId |->
         Coalesce(<<p.mext, TxDoc[t].stripeSubscriptionId,
                    TxDoc[t].razorpaySubscriptionId>>),
     transactionId |-> t]

\* session.withTransaction(...): the conditional update of the transaction,
\* the user update and the subscription upsert commit together or not at
\* all; a failure of the store (or of the commit) aborts and is rethrown.
HpsTxn(s) ==
    /\ inv[s].pc = "hps_txn"
    /\ \E f \in MayFail :
         LET p == P(s)
             t == p.transactionId
         IN  /\ Fault(f)
             /\ IF f \/ t = None
                THEN /\ Throw(s, "throw")
                     /\ UNCHANGED <<txStatus, users, subs, paidLog>>
                ELSE IF ~HpsMatches(t)
                THEN /\ Finish(s, "alreadyProcessed")
                     /\ UNCHANGED <<txStatus, users, subs, paidLog>>
                ELSE LET u == TxDoc[t].userId
                         a == HpsArtistId(t, p)
                         sub == HpsIsSubscription(t, p) /\ a # None
                     IN  /\ txStatus' = [txStatus EXCEPT ![t] = TX_STATUS.PAID]
                         /\ users' = IF u \in DOMAIN users
                                     THEN [users EXCEPT
                                             ![u] = HpsUserOps(@, t, inv[s].ev)]
                                     ELSE users
                         /\ subs' = IF sub THEN Upsert(u, a, HpsSubFields(t, p))
                                    ELSE subs
                         /\ paidLog' = Append(paidLog, [ev |-> inv[s].ev, tx |-> t,
                                                       seen |-> txStatus[t]])
                         /\ inv' = [inv EXCEPT
                               ![s].pc = "done", ![s].resp = "ok",
                               ![s].wrote = @ \cup {"tx"}
                                   \cup (IF u \in DOMAIN users THEN {"user"} ELSE {})
                                   \cup (IF sub THEN {"sub"} ELSE {})]
    /\ UNCHANGED <<log, txInvoice, invoiceSeq, delivered, invCalls, outcomes>>

\* -------------------------------------- PaymentService.handlePaymentFailed
\* What handlePaymentFailed makes of the result of WebhookEventLog.create:
\* a duplicate key is "already processed"; any other error is logged and
\* the method carries on.
HpfLedger(r) ==
    CASE r = "created" -> "NEW"
      [] r = "duplicate" -> "DUPLICATE"
      [] OTHER -> "ERROR"

HpfProceeds(o) == o # "DUPLICATE"

HpfLog(s) ==
    /\ inv[s].pc = "hpf_log"
    /\ \E f \in MayFail :
         LET r == LogCreate(inv[s].ev, f)
             o == HpfLedger(r)
             t == P(s).transactionId
         IN  /\ Fault(f)
             /\ log' = IF r = "created" THEN log \cup {inv[s].ev} ELSE log
             /\ inv' = [inv EXCEPT
                   ![s].ledger = o,
                   ![s].wrote = IF r = "created" THEN @ \cup {"ledger"} ELSE @,
                   ![s].pc = IF HpfProceeds(o) /\ t # None THEN "hpf_update"
                             ELSE "done",
                   ![s].resp = IF ~HpfProceeds(o) THEN "alreadyProcessed"
                               ELSE IF t = None THEN "missing_transactionId"
                               ELSE None]
             /\ Record(inv[s].ev, o)
    /\ UNCHANGED <<txStatus, txInvoice, invoiceSeq, users, subs,
                   delivered, paidLog, invCalls>>

\* Transaction.findOneAndUpdate({_id, status: {$ne: FAILED}}, ...) matches.
HpfMatches(t) == t \in TxIds /\ txStatus[t] # TX_STATUS.FAILED

HpfUpdate(s) ==
    /\ inv[s].pc = "hpf_update"
    /\ \E f \in MayFail :
         LET t == P(s).transactionId
         IN  /\ Fault(f)
             /\ IF f
                THEN /\ Throw(s, "throw")
                     /\ UNCHANGED txStatus
                ELSE IF ~HpfMatches(t)
                THEN /\ Finish(s, "alreadyProcessed")
                     /\ UNCHANGED txStatus
                ELSE /\ txStatus' = [txStatus EXCEPT ![t] = TX_STATUS.FAILED]
                     /\ inv' = [inv EXCEPT ![s].pc = "done", ![s].resp = "ok",
                                           ![s].wrote = @ \cup {"tx"}]
    /\ UNCHANGED <<log, txInvoice, invoiceSeq, users, subs,
                   delivered, paidLog, invCalls, outcomes>>

\* -------------------------------------------------------- refundTransaction
\* The provider call refundTransaction makes for the transaction.
RefundsAtProvider(t) == TxDoc[t].gateway \in {"stripe", "razorpay"}

\* await Transaction.findById(transactionId): 404 without a document; the
\* status of the document is not looked at.  Without a provider call the
\* handler dispatches REFUND_ISSUED and answers at once.
RfFind(s) ==
    /\ inv[s].pc = "rf_find"
    /\ \E f \in MayFail :
         LET t == P(s).transactionId
         IN  /\ Fault(f)
             /\ IF f THEN Throw(s, "500")
                ELSE IF t \notin TxIds THEN Finish(s, "404")
                ELSE IF RefundsAtProvider(t)
                THEN inv' = [inv EXCEPT ![s].pc = "rf_refund", ![s].found = t,
                                        ![s].seen = txStatus[t]]
                ELSE inv' = [inv EXCEPT ![s].pc = "done", ![s].resp = "200",
                                        ![s].found = t, ![s].seen = txStatus[t],
                                        ![s].wrote = @ \cup {"refund_event"}]
    /\ UNCHANGED <<log, txStatus, txInvoice, invoiceSeq, users, subs,
                   delivered, paidLog, invCalls, outcomes>>

\* await stripe.refunds.create / razorpayInstance.payments.refund, then the
\* dispatch of REFUND_ISSUED.
RfRefund(s) ==
    /\ inv[s].pc = "rf_refund"
    /\ \E f \in MayFail :
         /\ Fault(f)
         /\ IF f THEN Throw(s, "500")
            ELSE inv' = [inv EXCEPT
                   ![s].pc = "done", ![s].resp = "200",
                   ![s].wrote = @ \cup {"provider_refund", "refund_event"}]
    /\ UNCHANGED <<log, txStatus, txInvoice, invoiceSeq, users, subs,
                   delivered, paidLog, invCalls, outcomes>>

\* ------------------------------------------------------------ specification
Next ==
    \/ \E e \in EventIds, sigOk \in BOOLEAN : Deliver(e, sigOk)
    \/ \E s \in Slots : StFind(s)
    \/ \E s \in Slots : StCreate(s)
    \/ \E s \in Slots : StFailUpdate(s)
    \/ \E s \in Slots : RzFetch(s)
    \/ \E s \in Slots : PpVerify(s)
    \/ \E s \in Slots : MtpFind(s)
    \/ \E s \in Slots : MtpInvoice(s)
    \/ \E s \in Slots : MtpSave(s)
    \/ \E s \in Slots : UapSub(s)
    \/ \E s \in Slots : UapUser(s)
    \/ \E s \in Slots : SubUpdate(s)
    \/ \E s \in Slots : HpsLog(s)
    \/ \E s \in Slots : HpsTxn(s)
    \/ \E s \in Slots : HpfLog(s)
    \/ \E s \in Slots : HpfUpdate(s)
    \/ \E s \in Slots : RfFind(s)
    \/ \E s \in Slots : RfRefund(s)

Spec == Init /\ [][Next]_vars

\* ------------------------------------------------------- derived notions
InFlight(s) == inv[s].pc \notin {"idle", "done"}

Quiescent == \A s \in Slots : ~InFlight(s)

\* All purchase-history entries, of every user.
HistoryEntries ==
    UNION {{<<u, i>> : i \in 1..Len(users[u].purchaseHistory)} :
              u \in DOMAIN users}

EntriesOfEvent(e) ==
    {x \in HistoryEntries : users[x[1]].purchaseHistory[x[2]].ev = e}

EntriesOfTx(t) ==
    {x \in HistoryEntries : users[x[1]].purchaseHistory[x[2]].tx = t}

PaidWritesOfEvent(e) == {i \in 1..Len(paidLog) : paidLog[i].ev = e}

PaidWritesOfTx(t) == {i \in 1..Len(paidLog) : paidLog[i].tx = t}

\* The entitlement or subscription effect of transaction t is present.
EffectPresent(t) ==
    LET d == TxDoc[t]
    IN  /\ d.userId \in DOMAIN users
        /\ EntriesOfTx(t) # {}
        /\ d.itemType = "song" => Holds(users[d.userId].purchasedSongs, d.itemId)
        /\ d.itemType = "album" => Holds(users[d.userId].purchasedAlbums, d.itemId)
        /\ d.itemType = "artist-subscription" =>
             \E r \in subs : r.userId = d.userId /\ r.transactionId = t

\* ------------------------------------------------------------------ claims

\* C1: delivering the same event id twice, in any interleaving, produces
\* at most one write of "paid" and at most one purchase-history entry.
C1_ExactlyOnce ==
    \A e \in EventIds :
        /\ Cardinality(PaidWritesOfEvent(e)) <= 1
        /\ Cardinality(EntriesOfEvent(e)) <= 1

\* C2: of the invocations that register the same event id in the ledger,
\* exactly one obtains NEW and every other one DUPLICATE; stripeWebhook and
\* handlePaymentSuccess go on to process the event only with NEW.
C2_OneNewOthersDuplicate ==
    /\ \A e \in EventIds :
         /\ outcomes[e].NEW <= 1
         /\ outcomes[e].NEW + outcomes[e].DUPLICATE >= 1 => outcomes[e].NEW = 1
         /\ outcomes[e].NEW = 1 <=> e \in log
    /\ \A s \in Slots :
         /\ InFlight(s)
         /\ Payload[inv[s].ev].h \in {"stripe", "hps"}
         /\ inv[s].pc \notin {"st_find", "st_create", "hps_log"}
         => inv[s].ledger = "NEW"
    /\ \A s1, s2 \in Slots :
         /\ s1 # s2
         /\ inv[s1].ev = inv[s2].ev
         /\ inv[s1].ledger = "NEW"
         => inv[s2].ledger # "NEW"

\* C2 witness: two invocations of handlePaymentSuccess raced on one event
\* id; one holds NEW and is still processing, the other ended as DUPLICATE.
C2_Witness ==
    \E s1, s2 \in Slots :
        /\ inv[s1].ledger = "NEW" /\ inv[s1].pc = "hps_txn"
        /\ inv[s2].ledger = "DUPLICATE" /\ inv[s2].resp = "alreadyProcessed"
        /\ inv[s1].ev = inv[s2].ev

\* C3: once a transaction is paid, no step sets its status to failed.
C3_PaidNeverFailed ==
    [][\A t \in TxIds :
          txStatus[t] = TX_STATUS.PAID => txStatus'[t] # TX_STATUS.FAILED]_vars

\* C4: a pending transaction is obtained as newly paid by at most one
\* invocation.
C4_OnePendingToPaid ==
    \A t \in TxIds :
        Cardinality({i \in PaidWritesOfTx(t) :
                        paidLog[i].seen = TX_STATUS.PENDING}) <= 1

\* C5: when no invocation is in flight, a transaction is paid if and only
\* if its invoice number is set and its entitlement or subscription effect
\* is present.
C5_PaidIffInvoiceAndEffect ==
    Quiescent =>
        \A t \in TxIds :
            txStatus[t] = TX_STATUS.PAID <=> (txInvoice[t] # 0 /\ EffectPresent(t))

\* C6: an invocation that registered its event as NEW and then ended in an
\* error leaves no ledger record of that event behind.
C6_LedgerAndEffectsOneUnit ==
    \A s \in Slots :
        inv[s].pc = "done" /\ inv[s].ledger = "NEW" /\ inv[s].threw
        => inv[s].ev \notin log

LegalTransitions ==
    {<<TX_STATUS.PENDING, TX_STATUS.PAID>>, <<TX_STATUS.PENDING, TX_STATUS.FAILED>>,
     <<TX_STATUS.PAID, TX_STATUS.REFUNDED>>}

\* C7: every change of a transaction's status is pending-to-paid,
\* pending-to-failed or paid-to-refunded.
C7_OnlyLegalTransitions ==
    [][\A t \in TxIds :
          txStatus'[t] # txStatus[t]
          => <<txStatus[t], txStatus'[t]>> \in LegalTransitions]_vars

\* C8: a paid transaction has an invoice number, and the invoice-numbering
\* collaborator is called at most once per transaction.
C8_InvoiceExactlyOnce ==
    \A t \in TxIds :
        /\ txStatus[t] = TX_STATUS.PAID => txInvoice[t] # 0
        /\ invCalls[t] <= 1

\* C9: handlePaymentSuccess without a transactionId mutates no store and
\* ends in an explicit failure.
C9_UnmatchedNoMutation ==
    \A s \in Slots :
        /\ inv[s].pc = "done"
        /\ Payload[inv[s].ev].h = "hps"
        /\ Payload[inv[s].ev].transactionId = None
        => inv[s].wrote = {} /\ inv[s].resp = "throw"

\* C10: an invocation of handlePaymentSuccess or handlePaymentFailed whose
\* ledger registration failed on a store error changes no state and ends in
\* an error.
C10_LedgerFailureIsLoud ==
    \A s \in Slots :
        /\ inv[s].ledger = "ERROR"
        /\ Payload[inv[s].ev].h \in {"hps", "hpf"}
        => inv[s].wrote = {} /\ (inv[s].pc = "done" => inv[s].threw)

\* The array arr holds no value twice.
NoDuplicates(arr) == \A i, j \in 1..Len(arr) : i # j => arr[i] # arr[j]

\* C11: after any interleaving of grants, no user's purchasedSongs or
\* purchasedAlbums holds the same item id twice.
C11_OwnedSetsHaveNoDuplicates ==
    \A u \in DOMAIN users :
        /\ NoDuplicates(users[u].purchasedSongs)
        /\ NoDuplicates(users[u].purchasedAlbums)

\* C11 witness: the same item was granted twice (two history entries of one
\* song or album transaction) and the user's array holds it.
C11_Witness ==
    \E t \in TxIds :
        /\ TxDoc[t].itemType \in {"song", "album"}
        /\ Cardinality(EntriesOfTx(t)) >= 2
        /\ \/ Holds(users[TxDoc[t].userId].purchasedSongs, TxDoc[t].itemId)
           \/ Holds(users[TxDoc[t].userId].purchasedAlbums, TxDoc[t].itemId)

\* C12: the entitlement updater runs at most once per transaction: the
\* purchase history holds at most one entry per transaction.
C12_OneHistoryEntryPerTransaction ==
    \A t \in TxIds : Cardinality(EntriesOfTx(t)) <= 1

\* C13: no two Subscription documents have the same (user, artist) pair,
\* and the pair of every invocation that upserted has a document.
C13_OneRecordPerUserArtist ==
    /\ \A r1, r2 \in subs : SubscriptionKey(r1) = SubscriptionKey(r2) => r1 = r2
    /\ \A s \in Slots :
         inv[s].found # None /\ "sub" \in inv[s].wrote
         => \E r \in subs :
               SubscriptionKey(r) = <<TxDoc[inv[s].found].userId,
                                      TxDoc[inv[s].found].artistId>>

\* C13 witness: two invocations activated different transactions of the
\* same (user, artist) pair and the store holds one document.
C13_Witness ==
    /\ Cardinality(subs) = 1
    /\ \E s1, s2 \in Slots :
         /\ inv[s1].found # None /\ inv[s2].found # None
         /\ inv[s1].found # inv[s2].found
         /\ "sub" \in inv[s1].wrote /\ "sub" \in inv[s2].wrote

\* C14: no step lowers the validUntil of the Subscription document of a
\* (user, artist) pair.
C14_ValidUntilNeverDecreases ==
    [][\A r1 \in subs : \A r2 \in subs' :
          SubscriptionKey(r1) = SubscriptionKey(r2)
          => r2.validUntil >= r1.validUntil]_vars

\* The transaction a payment-succeeded event is for (None: the event is not
\* a complete payment-succeeded event).
SucceededTx(e) ==
    LET p == Payload[e]
    IN  CASE p.h = "hps" -> p.transactionId
          [] p.h = "stripe" /\ StripeDispatch(p) = "mtp_find" ->
               FindOne(Query(MtpArgs(p)))
          [] p.h = "razorpay" /\ p.type = "payment.captured"
             /\ (p.subscription # None \/ p.notes) -> FindOne(Query(MtpArgs(p)))
          [] p.h = "paypal" /\ PaypalDispatch(p) = "mtp_find" ->
               FindOne(Query(MtpArgs(p)))
          [] OTHER -> None

\* The number of occurrences of x in the array arr.
Occurrences(arr, x) == Cardinality({i \in 1..Len(arr) : arr[i] = x})

\* C15: when a single payment-succeeded event for a pending song or album
\* transaction has been processed, with nothing else delivered and no store
\* failure, the transaction is paid, has an invoice number, the item is in
\* the user's owned array exactly once and the purchase history has exactly
\* one entry for it; on the webhook path and on handlePaymentSuccess alike.
C15_SingleSuccessEndToEnd ==
    \A s \in Slots :
        /\ inv[s].pc = "done" /\ inv[s].sig
        /\ delivered = 1 /\ faults = 0
        /\ SucceededTx(inv[s].ev) \in TxIds
        /\ TxDoc[SucceededTx(inv[s].ev)].itemType \in {"song", "album"}
        => LET t == SucceededTx(inv[s].ev)
               d == TxDoc[t]
               owned == IF d.itemType = "song"
                        THEN users[d.userId].purchasedSongs
                        ELSE users[d.userId].purchasedAlbums
           IN  /\ txStatus[t] = TX_STATUS.PAID
               /\ txInvoice[t] # 0
               /\ Occurrences(owned, d.itemId) = 1
               /\ Cardinality(EntriesOfTx(t)) = 1

\* The slot's event is a subscription-cancelled or subscription
\* payment-failed event.
IsDeactivation(p) ==
    \/ p.h = "stripe" /\ StripeDispatch(p) = "sub_update"
    \/ p.h = "razorpay" /\ p.type \in {"subscription.halted",
                                        "subscription.completed"}
    \/ p.h = "paypal" /\ PaypalDispatch(p) = "sub_update"

\* C16: the deactivation step of an event whose external subscription id
\* matches no Subscription document, when the store answers, creates and
\* modifies no document of any store and ends the request with 200.
C16_UnmatchedDeactivationIsNoOp ==
    [][\A s \in Slots :
          /\ inv[s].pc = "sub_update" /\ inv'[s].pc = "done"
          /\ ~inv'[s].threw
          /\ DeactivateHits(DeactivateId(P(s))) = {}
          => /\ inv'[s].resp = "200"
             /\ UNCHANGED <<subs, txStatus, txInvoice, invoiceSeq, users>>]_vars

\* C16 witness: a deactivation event was answered 200 without an error
\* while the store held no Subscription document at all.
C16_Witness ==
    \E s \in Slots :
        /\ inv[s].pc = "done" /\ inv[s].sig /\ ~inv[s].threw
        /\ inv[s].resp = "200"
        /\ IsDeactivation(Payload[inv[s].ev])
        /\ subs = {}

\* The handlers that answer a provider over HTTP.
WebhookHandlers == {"stripe", "razorpay", "paypal"}

\* C17: a webhook invocation with a verified signature in which a store
\* call failed is never answered with a success response.
C17_StoreFailureIsNotAcknowledged ==
    \A s \in Slots :
        /\ inv[s].pc = "done" /\ inv[s].sig /\ inv[s].threw
        /\ Payload[inv[s].ev].h \in WebhookHandlers
        => inv[s].resp \notin {"200", "200dup"}

\* The one-time payment payload lacks its metadata or carries it malformed.
MissingMetadata(p) ==
    \/ /\ p.h = "stripe" /\ p.type = "payment_intent.succeeded"
       /\ p.invoice = None /\ p.transactionId = None
    \/ /\ p.h = "razorpay" /\ p.type = "payment.captured"
       /\ p.subscription = None /\ ~p.notes
    \/ /\ p.h = "paypal"
       /\ p.type \in {"PAYMENT.CAPTURE.COMPLETED", "CHECKOUT.ORDER.APPROVED"}
       /\ (p.malformed \/ ~p.notes)

\* C18: when no store or network call fails, a verified webhook payload
\* with missing or malformed one-time metadata is answered with success and
\* its invocation mutates no transaction, user or subscription.
C18_MissingMetadataIsAcknowledged ==
    \A s \in Slots :
        /\ inv[s].pc = "done" /\ inv[s].sig /\ faults = 0
        /\ MissingMetadata(Payload[inv[s].ev])
        => /\ inv[s].resp \in {"200", "200dup"}
           /\ inv[s].wrote \cap {"tx", "user", "sub"} = {}

\* The handler calls markTransactionPaid for the payload.
CallsMarkTransactionPaid(p) ==
    \/ p.h = "stripe" /\ StripeDispatch(p) = "mtp_find"
    \/ /\ p.h = "razorpay" /\ p.type = "payment.captured"
       /\ (p.subscription # None \/ p.notes)
    \/ p.h = "paypal" /\ PaypalDispatch(p) = "mtp_find"

\* No transaction matches the filter markTransactionPaid builds.
NoTxMatches(p) == \A t \in TxIds : ~Matches(t, Query(MtpArgs(p)))

C20_EveryInvocationResponds ==
    \A s \in Slots :
        /\ inv[s].pc = "done"
        /\ Payload[inv[s].ev].h \in WebhookHandlers
        => inv[s].resp \in {"200", "200dup", "400", "500"}

\* The identifiers supplied in a call of markTransactionPaid, as filters in
\* the gateway's priority order.
SuppliedKeys(a) ==
    LET all == CASE a.gateway = "stripe" ->
                      <<[field |-> "stripeSubscriptionId",
                         value |-> a.stripeSubscriptionId],
                        [field |-> "paymentIntentId", value |-> a.paymentIntentId]>>
                 [] a.gateway = "razorpay" ->
                      <<[field |-> "razorpaySubscriptionId",
                         value |-> a.subscriptionId],
                        [field |-> "razorpayOrderId", value |-> a.razorpayOrderId],
                        [field |-> "paymentId", value |-> a.paymentId]>>
                 [] a.gateway = "paypal" ->
                      <<[field |-> "paypalSubscriptionId",
                         value |-> a.subscriptionId],
                        [field |-> "paypalOrderId", value |-> a.paymentId]>>
                 [] OTHER -> <<>>
    IN  SelectSeq(all, LAMBDA k : k.value # None)

\* The transaction found by trying the supplied keys in order until one
\* matches (None: no supplied key matches).
LocateByPriority(a) ==
    LET ks == SuppliedKeys(a)
        hits == {i \in 1..Len(ks) : \E t \in TxIds : Matches(t, ks[i])}
    IN  IF hits = {} THEN None
        ELSE FindOne(ks[CHOOSE i \in hits : \A j \in hits : i <= j])

\* C21: an invocation that called markTransactionPaid, alone and without a
\* store failure, loaded the transaction that the supplied keys, tried in
\* the gateway's priority order until one matches, locate.
C21_LookupTriesKeysInOrder ==
    \A s \in Slots :
        /\ inv[s].pc = "done" /\ inv[s].sig /\ ~inv[s].threw
        /\ delivered = 1
        /\ CallsMarkTransactionPaid(Payload[inv[s].ev])
        => inv[s].found = LocateByPriority(MtpArgs(Payload[inv[s].ev]))

\* The validUntil (days from now) an activation of transaction t by event e
\* is to write: the provider's period end if the payload carries one, else
\* the duration of the plan cycle, else 30 days.
ExpectedValidUntil(t, e) ==
    IF Payload[e].periodEnd # None THEN Payload[e].periodEnd
    ELSE CASE TxDoc[t].cycle = "1m" -> 30
           [] TxDoc[t].cycle = "3m" -> 90
           [] TxDoc[t].cycle = "6m" -> 180
           [] OTHER -> 30

\* C22: the Subscription document written for a transaction is active and
\* its validUntil is the provider's period end, else now plus the duration
\* of the transaction's cycle, else now plus 30 days, whichever success
\* path paid the transaction.
C22_ValidUntilFollowsCycle ==
    \A r \in subs : \A i \in 1..Len(paidLog) :
        r.transactionId = paidLog[i].tx /\ r.status = "active"
        => r.validUntil = ExpectedValidUntil(paidLog[i].tx, paidLog[i].ev)

\* The item kinds the entitlement updater knows.
KnownKinds == {"song", "album", "artist-subscription"}

\* C23: a transaction of an unknown item kind gets no purchase-history
\* entry and its invocation ends without an error; the item of an
\* artist-subscription transaction is in no purchasedSongs or
\* purchasedAlbums array.
C23_UnknownKindIsNoOp ==
    /\ \A t \in TxIds :
         TxDoc[t].itemType \notin KnownKinds => EntriesOfTx(t) = {}
    /\ \A s \in Slots :
         /\ inv[s].pc = "done" /\ inv[s].found # None /\ faults = 0
         /\ TxDoc[inv[s].found].itemType \notin KnownKinds
         => inv[s].resp = "200" /\ ~inv[s].threw
    /\ \A t \in TxIds : \A u \in DOMAIN users :
         TxDoc[t].itemType = "artist-subscription"
         => /\ ~Holds(users[u].purchasedSongs, TxDoc[t].itemId)
            /\ ~Holds(users[u].purchasedAlbums, TxDoc[t].itemId)

\* The transaction an invocation granted for.
SlotTx(s) ==
    IF Payload[inv[s].ev].h = "hps" THEN Payload[inv[s].ev].transactionId
    ELSE inv[s].found

\* C24: the grant of every invocation that updated the user document is
\* still there, whatever other grants were interleaved with it: the
\* purchase history has its entry and the owned array of a song or album
\* holds the item.
C24_NoLostUpdate ==
    \A s \in Slots :
        inv[s].pc = "done" /\ "user" \in inv[s].wrote
        => LET t == SlotTx(s)
               u == users[TxDoc[t].userId]
           IN  /\ EntriesOfEvent(inv[s].ev) \cap EntriesOfTx(t) # {}
               /\ TxDoc[t].itemType = "song"
                  => Holds(u.purchasedSongs, TxDoc[t].itemId)
               /\ TxDoc[t].itemType = "album"
                  => Holds(u.purchasedAlbums, TxDoc[t].itemId)

\* C24 witness: two invocations granted a song and an album to the same
\* user.
C24_Witness ==
    \E s1, s2 \in Slots :
        /\ inv[s1].pc = "done" /\ "user" \in inv[s1].wrote
        /\ inv[s2].pc = "done" /\ "user" \in inv[s2].wrote
        /\ TxDoc[SlotTx(s1)].itemType = "song"
        /\ TxDoc[SlotTx(s2)].itemType = "album"
        /\ TxDoc[SlotTx(s1)].userId = TxDoc[SlotTx(s2)].userId

\* C25: refundTransaction issues a provider refund or dispatches the refund
\* event only for a transaction it loaded in status paid.
C25_RefundOnlyWhenPaid ==
    \A s \in Slots :
        /\ inv[s].ev # None
        /\ Payload[inv[s].ev].h = "refund"
        /\ inv[s].wrote \cap {"provider_refund", "refund_event"} # {}
        => inv[s].seen = TX_STATUS.PAID

\* C26: every write of "paid" made through markTransactionPaid is for a
\* transaction one of whose stored correlation keys equals an identifier
\* supplied in the call.
C26_PaidOnlyByMatchingKey ==
    \A i \in 1..Len(paidLog) :
        Payload[paidLog[i].ev].h \in WebhookHandlers
        => LET ks == SuppliedKeys(MtpArgs(Payload[paidLog[i].ev]))
           IN  \E k \in 1..Len(ks) :
                  TxDoc[paidLog[i].tx][ks[k].field] = ks[k].value

\* C27: an invocation in which updateUserAfterPurchase returned false (the
\* user of the transaction has no document) wrote no Subscription document
\* and no user document, and no Subscription document names its transaction.
C27_UserNotFoundChangesNothing ==
    \A s \in Slots :
        /\ inv[s].pc = "done" /\ ~inv[s].threw /\ inv[s].found # None
        /\ Payload[inv[s].ev].h \in WebhookHandlers
        /\ TxDoc[inv[s].found].userId \notin DOMAIN users
        => /\ inv[s].wrote \cap {"sub", "user"} = {}
           /\ \A r \in subs : r.transactionId # inv[s].found

\* The caller got a success acknowledgment and stops redelivering.
Acked(s) ==
    \/ /\ Payload[inv[s].ev].h \in WebhookHandlers
       /\ inv[s].resp \in {"200", "200dup"}
    \/ /\ Payload[inv[s].ev].h = "hps"
       /\ inv[s].resp \in {"ok", "alreadyProcessed"}

\* C28: when nothing is in flight, a payment-succeeded event that was
\* acknowledged with success has not left its transaction pending.
C28_AcknowledgedMeansPaid ==
    \A s \in Slots :
        /\ Quiescent
        /\ inv[s].pc = "done" /\ inv[s].sig
        /\ Acked(s)
        /\ SucceededTx(inv[s].ev) \in TxIds
        => txStatus[SucceededTx(inv[s].ev)] # TX_STATUS.PENDING

====
